---------------------------- MODULE Spec2Model ----------------------------
(***************************************************************************)
(* A model of sendtg.py: the SendTg class of the telebot-send command-line  *)
(* tool.  One run of the program is one behaviour: run() dispatches to      *)
(* send_media, send_message, check or sys.exit; every requests.post of the  *)
(* main thread is split into the step that issues it and the step in which  *)
(* it returns or raises; the chat-action worker threads run beside it.      *)
(***************************************************************************)
EXTENDS Integers, Sequences, FiniteSets, TLC

None == "None"        \* Python's None
Absent == "absent"    \* a dict key that has been deleted

----------------------------------------------------------------------------
(* Bounds of the model *)

MaxPaths == 3         \* longest list of the short-list input family
MaxLong == 21         \* longest list of the long-list input family
MaxTok == 2           \* longest variable part of a bot token
MaxAffix == 1         \* longest text around the token in an exception text

(* Constants of the program *)

GroupSize == 10       \* range(0, len(media_group), 10), media_group[i : i + 10]
TokenVisible == 10    \* self.bot_token[10:]
MaskLen == 30         \* "*" * 30

----------------------------------------------------------------------------
(* Strings are sequences of one-character strings. *)

REDACTED == <<"R", "E", "D", "A", "C", "T", "E", "D">>

Stars(n) == [k \in 1..n |-> "*"]

Min(a, b) == IF a < b THEN a ELSE b

CeilDiv(a, b) == (a + b - 1) \div b

MatchAt(s, t, p) ==
    /\ p + Len(t) - 1 <= Len(s)
    /\ \A k \in 1..Len(t) : s[p + k - 1] = t[k]

\* t in s, for Python strings
Contains(s, t) == \E p \in 1..(Len(s) + 1) : MatchAt(s, t, p)

RECURSIVE ReplaceFrom(_, _, _, _)
ReplaceFrom(s, old, new, p) ==
    IF p > Len(s) THEN IF old = <<>> THEN new ELSE <<>>
    ELSE IF old = <<>> THEN new \o <<s[p]>> \o ReplaceFrom(s, old, new, p + 1)
    ELSE IF MatchAt(s, old, p) THEN new \o ReplaceFrom(s, old, new, p + Len(old))
    ELSE <<s[p]>> \o ReplaceFrom(s, old, new, p + 1)

\* str.replace(old, new): every non-overlapping occurrence, leftmost first;
\* an empty old matches before every character and at the end.
Replace(s, old, new) == ReplaceFrom(s, old, new, 1)

\* self.bot_token.replace(self.bot_token[10:], "*" * 30)
MaskToken(t) == Replace(t, SubSeq(t, TokenVisible + 1, Len(t)), Stars(MaskLen))

RECURSIVE StrsOf(_, _)
StrsOf(chars, n) ==
    IF n = 0 THEN {<<>>}
    ELSE LET shorter == StrsOf(chars, n - 1)
         IN shorter \cup {Append(s, c) : s \in shorter, c \in chars}

----------------------------------------------------------------------------
(* Paths and the file system.  A path has a directory and a base name; its  *)
(* extension fixes what mimetypes.guess_type returns, and isfile is what    *)
(* os.path.isfile answers for it.  Base names are numbered.                 *)

Path(d, b, m, f) == [dir |-> d, base |-> b, mime |-> m, isfile |-> f]

ShortPaths ==
    { Path(1, 1, "image", TRUE),          \* x/a.jpg
      Path(2, 1, "image", TRUE),          \* y/a.jpg, the same base name
      Path(1, 2, "video", TRUE),          \* x/b.mp4
      Path(1, 3, "application", TRUE),    \* x/d.pdf
      Path(1, 4, "image", FALSE) }        \* x/gone.jpg, not on the file system

RECURSIVE ListsOf(_, _)
ListsOf(S, n) ==
    IF n = 0 THEN {<<>>}
    ELSE LET shorter == ListsOf(S, n - 1)
         IN shorter \cup {Append(l, x) : l \in {m \in shorter : Len(m) = n - 1}, x \in S}

LongMime(k, s) ==
    CASE s = 0 -> "image"
      [] s = 1 -> IF k % 2 = 1 THEN "image" ELSE "video"
      [] OTHER -> <<"image", "video", "audio">>[(k % 3) + 1]

\* n existing media files with distinct names, photo / video / audio by pattern s
LongList(n, s) == [k \in 1..n |-> Path(1, k, LongMime(k, s), TRUE)]

----------------------------------------------------------------------------
(* The command line (cli, argparse) and the inputs of the model *)

BaseArgs ==
    [ message |-> None, media |-> <<>>, caption |-> None, as_file |-> FALSE,
      no_group |-> FALSE, button_text |-> None, button_url |-> None,
      spoiler |-> FALSE, check |-> FALSE,
      bot_token |-> None, chat_id |-> None, api_url |-> None ]

SampleToken == <<"1", "2", "3", "4", "5", "6", "7", "8", "9", "0", ":", "X">>

Captions == {None, "cap"}

\* short lists of any paths, every combination of -F and --no-group
ShortInputs ==
    { [args |-> [BaseArgs EXCEPT !.media = l, !.caption = c, !.as_file = f, !.no_group = g],
       token |-> SampleToken, exc |-> SampleToken] :
        l \in ListsOf(ShortPaths, MaxPaths) \ {<<>>}, c \in Captions,
        f \in BOOLEAN, g \in BOOLEAN }

\* more than one media group
LongInputs ==
    { [args |-> [BaseArgs EXCEPT !.media = LongList(n, s), !.caption = c],
       token |-> SampleToken, exc |-> SampleToken] :
        n \in (GroupSize + 1)..MaxLong, s \in 0..2, c \in Captions }

\* the buttons, the message, --check, --spoiler, with at most one file
ButtonInputs ==
    { [args |-> [BaseArgs EXCEPT !.media = l, !.message = m, !.button_text = bt,
                                 !.button_url = bu, !.check = ck, !.no_group = g,
                                 !.spoiler = sp],
       token |-> SampleToken, exc |-> SampleToken] :
        l \in ListsOf(ShortPaths, 1), m \in {None, "msg"}, bt \in {None, "text"},
        bu \in {None, "url"}, ck \in BOOLEAN, g \in BOOLEAN, sp \in BOOLEAN }

TokChars == {"D", "X"}

TokenPad == SubSeq(SampleToken, 1, TokenVisible)

\* tokens of at most TokenVisible characters, and longer ones
Tokens ==
    LET tails == StrsOf(TokChars, MaxTok) \ {<<>>}
    IN tails \cup {TokenPad \o t : t \in tails}

\* the text of a RequestException: it quotes the URL, which holds the token
ExcTexts(tok) ==
    LET affixes == StrsOf(TokChars, MaxAffix)
    IN {a \o tok \o b \o again : a \in affixes, b \in affixes, again \in {<<>>, tok}}

\* the credentials: a message sent with any token and any exception text
TokenInputs ==
    UNION { { [args |-> [BaseArgs EXCEPT !.message = "msg", !.chat_id = ci, !.api_url = au],
               token |-> tok, exc |-> e] :
                e \in ExcTexts(tok), ci \in {None, "id"}, au \in {None, "url"} } :
            tok \in Tokens }

Inputs == ShortInputs \cup LongInputs \cup ButtonInputs \cup TokenInputs

----------------------------------------------------------------------------
VARIABLES
    args,          \* run_args, the parsed command line
    bot_token,     \* self.bot_token
    exc_text,      \* str(e) of the RequestException a failing request raises
    pc,            \* where the main thread is
    i,             \* paths the for loop of send_media has taken
    j,             \* media_group items the sending loop has taken
    media_group,   \* send_media's media_group
    files_data,    \* send_media's files_data: base name -> file handle
    media_type,    \* send_media's media_type, as the for loop left it
    reply_markup,  \* the reply markup of the run
    opened,        \* the file handles opened (a handle is named by its path's index)
    closed,        \* the file handles closed
    sent,          \* the requests of the main thread, in the order issued
    chat_running,  \* chat-action worker threads that have not finished
    log            \* what was written to the log

vars == <<args, bot_token, exc_text, pc, i, j, media_group, files_data, media_type,
          reply_markup, opened, closed, sent, chat_running, log>>

Init ==
    \E in \in Inputs :
        /\ args = in.args
        /\ bot_token = in.token
        /\ exc_text = in.exc
        /\ pc = "run"
        /\ i = 0
        /\ j = 0
        /\ media_group = <<>>
        /\ files_data = <<>>
        /\ media_type = None
        /\ reply_markup = None
        /\ opened = {}
        /\ closed = {}
        /\ sent = <<>>
        /\ chat_running = 0
        /\ log = {}

----------------------------------------------------------------------------
(* Logging (utils/logger.py: level INFO, so log.debug writes nothing) *)

LogLine(level, msg, idx, text) == [level |-> level, msg |-> msg, idx |-> idx, text |-> text]

\* log_except(msgs, e): the line written for the exception of request idx
LogExcept(msgs, idx) ==
    LogLine("error", msgs, idx, Replace(exc_text, bot_token, REDACTED))

\* run: the lines about the default credentials
StartupLines ==
    IF args.bot_token = None /\ args.chat_id = None
    THEN (IF args.api_url = None
          THEN {LogLine("info", "Using default bot api URL.", 0, <<>>)}
          ELSE {})
         \cup {LogLine("info", "Using default bot token and chat ID.", 0,
                       MaskToken(bot_token))}
    ELSE {}

----------------------------------------------------------------------------
(* Helpers of send_media *)

\* _media_type(mime_type)
MediaType(mime) ==
    IF mime = "image" THEN "photo"
    ELSE IF mime = "video" THEN "video"
    ELSE IF mime = "audio" THEN "audio"
    ELSE "document"

\* "document" if as_file else self._media_type(mime_type)
ClassOf(p) == IF args.as_file THEN "document" ELSE MediaType(p.mime)

ButtonGiven(b) == b # None /\ b # ""

\* _create_reply_markup: the markup it returns
CreateReplyMarkup(button_text, button_url) ==
    IF ButtonGiven(button_text) /\ ButtonGiven(button_url)
    THEN "inline_keyboard"
    ELSE None

\* _create_reply_markup: what it logs
ButtonErrors(button_text, button_url) ==
    IF ~(ButtonGiven(button_text) /\ ButtonGiven(button_url))
       /\ (ButtonGiven(button_text) \/ ButtonGiven(button_url))
    THEN {LogLine("error", "Both button_text and button_url must be provided.", 0, <<>>)}
    ELSE {}

\* run: the reply markup of the message path, built in place
RunReplyMarkup(button_text, button_url) ==
    IF ButtonGiven(button_text) /\ ButtonGiven(button_url)
    THEN "inline_keyboard"
    ELSE None

\* the caption on the first item of every batch of ten
CaptionPerBatch(n, caption) == IF n % GroupSize = 0 THEN caption ELSE ""

\* "caption": caption if len(media_group) == 0 else ""
DescriptorCaption(n, caption) == IF n = 0 THEN caption ELSE ""

Descriptor(type, name, caption, spoiler) ==
    [type |-> type, media |-> name, caption |-> caption, has_spoiler |-> spoiler]

\* media_group[i : i + 10]
MediaChunk(group, from) == SubSeq(group, from + 1, Min(from + GroupSize, Len(group)))

\* _send_media_group: del media["caption"] where media.get("caption") is None
DropNoneCaption(d) ==
    IF d.caption = None THEN [d EXCEPT !.caption = Absent] ELSE d

Range(f) == {f[x] : x \in DOMAIN f}

Request(method, item, media, files, caption, markup) ==
    [method |-> method, item |-> item, media |-> media, files |-> files,
     caption |-> caption, reply_markup |-> markup, result |-> "pending"]

\* a request handed to a worker: the main thread goes on at once
PostWithoutWaiting(wait, next) == next

\* requests.post blocks: the main thread waits for the response
PcAfterPost(wait, next) == wait

\* a missing file ends the call
ReturnAfterMissing == "return"

\* the continue after "File not found"
PcAfterMissing == "scan"

\* no return after _send_document: the for loop goes on
ContinueAfterDocument == "scan"

\* the return after _send_document
PcAfterDocument == "return"

\* _send_media_group without its except clause
GroupPropagates == FALSE

\* _send_media_group catches the RequestException of its request
GroupCatches == TRUE

\* send_action without its except clause, called in the main thread: the
\* exception ends the call that asked for the chat action
ChatFailureEndsCall(p) == "done"

\* send_action catches the RequestException of its request inside the worker
\* thread: the main thread stays where it is
PcAfterChatFailure(p) == p

\* a file object nothing refers to any more: the runtime may close it at once
\* (reference counting) or leave it open (a collector that runs later)
Dropped(handles) == {closed, closed \cup handles}

----------------------------------------------------------------------------
(* run *)

Run ==
    /\ pc = "run"
    /\ IF args.message = None /\ args.media = <<>>
       THEN /\ pc' = IF args.check THEN "check" ELSE "exited"
            /\ UNCHANGED <<log, reply_markup>>
       ELSE /\ log' = log \cup StartupLines
            /\ IF args.media # <<>>
               THEN pc' = "send_media" /\ UNCHANGED reply_markup
               ELSE /\ pc' = "send_message"
                    /\ reply_markup' = RunReplyMarkup(args.button_text, args.button_url)
    /\ UNCHANGED <<args, bot_token, exc_text, i, j, media_group, files_data, media_type,
                   opened, closed, sent, chat_running>>

(* send_media, up to its for loop *)

SendMediaBegin ==
    /\ pc = "send_media"
    /\ media_group' = <<>>
    /\ files_data' = <<>>
    /\ reply_markup' = CreateReplyMarkup(args.button_text, args.button_url)
    /\ log' = log \cup ButtonErrors(args.button_text, args.button_url)
    /\ i' = 0
    /\ pc' = "scan"
    /\ UNCHANGED <<args, bot_token, exc_text, j, media_type, opened, closed, sent,
                   chat_running>>

\* a path that is no file
ScanMissing ==
    /\ pc = "scan"
    /\ i < Len(args.media)
    /\ ~args.media[i + 1].isfile
    /\ log' = log \cup {LogLine("error", "File not found:", i + 1, <<>>)}
    /\ i' = i + 1
    /\ pc' = PcAfterMissing
    /\ UNCHANGED <<args, bot_token, exc_text, j, media_group, files_data, media_type,
                   reply_markup, opened, closed, sent, chat_running>>

\* a photo, video or audio file: opened and put in media_group
ScanAccumulate ==
    /\ pc = "scan"
    /\ i < Len(args.media)
    /\ LET p == args.media[i + 1]
       IN /\ p.isfile
          /\ ClassOf(p) # "document"
          /\ media_type' = ClassOf(p)
          /\ opened' = opened \cup {i + 1}
          /\ closed' \in (IF p.base \in DOMAIN files_data
                          THEN Dropped({files_data[p.base]})
                          ELSE {closed})
          /\ files_data' = (p.base :> (i + 1)) @@ files_data
          /\ media_group' = Append(media_group,
                 Descriptor(ClassOf(p), p.base,
                            DescriptorCaption(Len(media_group), args.caption),
                            args.spoiler))
    /\ i' = i + 1
    /\ UNCHANGED <<args, bot_token, exc_text, pc, j, reply_markup, sent, chat_running,
                   log>>

\* a document: send_chat_action starts its worker thread
ScanDocument ==
    /\ pc = "scan"
    /\ i < Len(args.media)
    /\ LET p == args.media[i + 1]
       IN /\ p.isfile
          /\ ClassOf(p) = "document"
          /\ media_type' = "document"
          /\ chat_running' = chat_running + 1
    /\ i' = i + 1
    /\ pc' = "doc_post"
    /\ UNCHANGED <<args, bot_token, exc_text, j, media_group, files_data, reply_markup,
                   opened, closed, sent, log>>

\* _send_document up to its requests.post
DocumentPost ==
    /\ pc = "doc_post"
    /\ opened' = opened \cup {i}
    /\ sent' = Append(sent, Request("sendDocument", i, <<>>, {i}, args.caption,
                                    reply_markup))
    /\ pc' = PcAfterPost("doc_wait", "doc_sent")
    /\ UNCHANGED <<args, bot_token, exc_text, i, j, media_group, files_data, media_type,
                   reply_markup, closed, chat_running, log>>

\* _send_document from the response on: the with block closes the file
DocumentReturn ==
    \E k \in DOMAIN sent, ok \in BOOLEAN :
        /\ sent[k].method = "sendDocument"
        /\ sent[k].result = "pending"
        /\ sent' = [sent EXCEPT ![k].result = IF ok THEN "ok" ELSE "failed"]
        /\ closed' = closed \cup sent[k].files
        /\ log' = log \cup {IF ok THEN LogLine("info", "Document sent to chat ID", k, <<>>)
                                  ELSE LogExcept("Failed to send document:", k)}
        /\ pc' = IF pc = "doc_wait" THEN "doc_sent" ELSE pc
        /\ UNCHANGED <<args, bot_token, exc_text, i, j, media_group, files_data,
                       media_type, reply_markup, opened, chat_running>>

\* back in send_media after _send_document
DocumentDone ==
    /\ pc = "doc_sent"
    /\ pc' = PcAfterDocument
    /\ UNCHANGED <<args, bot_token, exc_text, i, j, media_group, files_data, media_type,
                   reply_markup, opened, closed, sent, chat_running, log>>

\* the return inside the for loop: the try ... finally is never entered
EarlyReturn ==
    /\ pc = "return"
    /\ closed' \in Dropped(Range(files_data))
    /\ pc' = "done"
    /\ UNCHANGED <<args, bot_token, exc_text, i, j, media_group, files_data, media_type,
                   reply_markup, opened, sent, chat_running, log>>

\* the for loop is over: the try block
ScanEnd ==
    /\ pc = "scan"
    /\ i >= Len(args.media)
    /\ j' = 0
    /\ IF args.no_group
       THEN pc' = "single" /\ UNCHANGED log
       ELSE /\ pc' = "group"
            /\ log' = log \cup {LogLine("info", "Sending media in groups of 10.", 0, <<>>)}
    /\ UNCHANGED <<args, bot_token, exc_text, i, media_group, files_data, media_type,
                   reply_markup, opened, closed, sent, chat_running>>

\* --no-group, the next item: send_chat_action starts its worker thread
SingleAction ==
    /\ pc = "single"
    /\ j < Len(media_group)
    /\ chat_running' = chat_running + 1
    /\ j' = j + 1
    /\ pc' = "single_post"
    /\ UNCHANGED <<args, bot_token, exc_text, i, media_group, files_data, media_type,
                   reply_markup, opened, closed, sent, log>>

\* if file_name in files_data: _send_single_media up to its requests.post
SinglePost ==
    /\ pc = "single_post"
    /\ LET media_item == media_group[j]
       IN IF media_item.media \in DOMAIN files_data
          THEN /\ sent' = Append(sent, Request("send" \o media_item.type, j, <<>>,
                                               {files_data[media_item.media]},
                                               args.caption, reply_markup))
               /\ pc' = PcAfterPost("single_wait", "single")
          ELSE /\ pc' = "single"
               /\ UNCHANGED sent
    /\ UNCHANGED <<args, bot_token, exc_text, i, j, media_group, files_data, media_type,
                   reply_markup, opened, closed, chat_running, log>>

\* _send_single_media from the response on
SingleReturn ==
    \E k \in DOMAIN sent, ok \in BOOLEAN :
        /\ sent[k].method \in {"sendphoto", "sendvideo", "sendaudio"}
        /\ sent[k].result = "pending"
        /\ sent' = [sent EXCEPT ![k].result = IF ok THEN "ok" ELSE "failed"]
        /\ log' = log \cup {IF ok THEN LogLine("info", "Single media file sent to chat ID", k, <<>>)
                                  ELSE LogExcept("Failed to send media file:", k)}
        /\ pc' = IF pc = "single_wait" THEN "single" ELSE pc
        /\ UNCHANGED <<args, bot_token, exc_text, i, j, media_group, files_data,
                       media_type, reply_markup, opened, closed, chat_running>>

\* one round of the grouped loop: the chunk is logged and send_chat_action
\* starts its worker thread
GroupAction ==
    /\ pc = "group"
    /\ j < Len(media_group)
    /\ log' = log \cup {LogLine("info", "Sending media group #", (j \div GroupSize) + 1,
                                <<>>)}
    /\ chat_running' = chat_running + 1
    /\ j' = j + GroupSize
    /\ pc' = "group_post"
    /\ UNCHANGED <<args, bot_token, exc_text, i, media_group, files_data, media_type,
                   reply_markup, opened, closed, sent>>

\* the chunk and its files; _send_media_group up to its requests.post
GroupPost ==
    /\ pc = "group_post"
    /\ LET from == j - GroupSize
           media_chunk == MediaChunk(media_group, from)
           current_files_data ==
               {files_data[media_chunk[m].media] :
                    m \in {n \in DOMAIN media_chunk : media_chunk[n].media \in DOMAIN files_data}}
           stripped == [m \in DOMAIN media_chunk |-> DropNoneCaption(media_chunk[m])]
       IN /\ media_group' = [m \in DOMAIN media_group |->
                                IF m > from /\ m <= from + Len(media_chunk)
                                THEN stripped[m - from] ELSE media_group[m]]
          /\ sent' = Append(sent, Request("sendMediaGroup", (from \div GroupSize) + 1,
                                          stripped, current_files_data, None, None))
    /\ pc' = PcAfterPost("group_wait", "group")
    /\ UNCHANGED <<args, bot_token, exc_text, i, j, files_data, media_type, reply_markup,
                   opened, closed, chat_running, log>>

\* _send_media_group from the response on; an exception it does not catch is
\* caught by the except clause of send_media, which ends the loop
GroupReturn ==
    \E k \in DOMAIN sent, ok \in BOOLEAN :
        /\ sent[k].method = "sendMediaGroup"
        /\ sent[k].result = "pending"
        /\ sent' = [sent EXCEPT ![k].result = IF ok THEN "ok" ELSE "failed"]
        /\ log' = log \cup {IF ok THEN LogLine("info", "Media group sent to chat ID", k, <<>>)
                                  ELSE IF GroupCatches
                                       THEN LogExcept("Failed to send media group:", k)
                                       ELSE LogExcept("Failed to send media:", k)}
        /\ pc' = IF pc # "group_wait" THEN pc
                 ELSE IF ok \/ GroupCatches THEN "group" ELSE "finally"
        /\ UNCHANGED <<args, bot_token, exc_text, i, j, media_group, files_data,
                       media_type, reply_markup, opened, closed, chat_running>>

\* the try block has ended
TryOver ==
    \/ pc = "finally"
    \/ pc \in {"single", "group"} /\ j >= Len(media_group)

\* finally: every file of files_data is closed
SendMediaFinally ==
    /\ TryOver
    /\ closed' = closed \cup Range(files_data)
    /\ pc' = "done"
    /\ UNCHANGED <<args, bot_token, exc_text, i, j, media_group, files_data, media_type,
                   reply_markup, opened, sent, chat_running, log>>

(* send_message *)

\* the payload is built; send_chat_action starts its worker thread
SendMessageAction ==
    /\ pc = "send_message"
    /\ chat_running' = chat_running + 1
    /\ pc' = "message_post"
    /\ UNCHANGED <<args, bot_token, exc_text, i, j, media_group, files_data, media_type,
                   reply_markup, opened, closed, sent, log>>

\* the requests.post of sendMessage
SendMessagePost ==
    /\ pc = "message_post"
    /\ sent' = Append(sent, Request("sendMessage", 0, <<>>, {}, None, reply_markup))
    /\ pc' = PcAfterPost("message_wait", "done")
    /\ UNCHANGED <<args, bot_token, exc_text, i, j, media_group, files_data, media_type,
                   reply_markup, opened, closed, chat_running, log>>

SendMessageReturn ==
    \E k \in DOMAIN sent, ok \in BOOLEAN :
        /\ sent[k].method = "sendMessage"
        /\ sent[k].result = "pending"
        /\ sent' = [sent EXCEPT ![k].result = IF ok THEN "ok" ELSE "failed"]
        /\ log' = log \cup {IF ok THEN LogLine("info", "Message sent to chat ID", k, <<>>)
                                  ELSE LogExcept("Failed to send message:", k)}
        /\ pc' = IF pc = "message_wait" THEN "done" ELSE pc
        /\ UNCHANGED <<args, bot_token, exc_text, i, j, media_group, files_data,
                       media_type, reply_markup, opened, closed, chat_running>>

(* check *)

\* the requests.post of a random chat action, in the main thread
CheckPost ==
    /\ pc = "check"
    /\ sent' = Append(sent, Request("sendChatAction", 0, <<>>, {}, None, None))
    /\ pc' = PcAfterPost("check_wait", "done")
    /\ UNCHANGED <<args, bot_token, exc_text, i, j, media_group, files_data, media_type,
                   reply_markup, opened, closed, chat_running, log>>

CheckReturn ==
    \E k \in DOMAIN sent, ok \in BOOLEAN :
        /\ sent[k].method = "sendChatAction"
        /\ sent[k].result = "pending"
        /\ sent' = [sent EXCEPT ![k].result = IF ok THEN "ok" ELSE "failed"]
        /\ log' = log \cup {IF ok THEN LogLine("info", "API Response time:", k, <<>>)
                                  ELSE LogExcept("Failed to send chat action:", k)}
        /\ pc' = IF pc = "check_wait" THEN "done" ELSE pc
        /\ UNCHANGED <<args, bot_token, exc_text, i, j, media_group, files_data,
                       media_type, reply_markup, opened, closed, chat_running>>

(* send_chat_action's worker thread *)

\* send_action: its request returns, or raises and the thread logs it
ChatActionDone ==
    \E ok \in BOOLEAN :
        /\ chat_running > 0
        /\ chat_running' = chat_running - 1
        /\ log' = IF ok THEN log
                  ELSE log \cup {LogExcept("Failed to send chat action:", 0)}
        /\ pc' = IF ok THEN pc ELSE PcAfterChatFailure(pc)
        /\ UNCHANGED <<args, bot_token, exc_text, i, j, media_group, files_data,
                       media_type, reply_markup, opened, closed, sent>>

Next ==
    \/ Run
    \/ SendMediaBegin
    \/ ScanMissing
    \/ ScanAccumulate
    \/ ScanDocument
    \/ DocumentPost
    \/ DocumentReturn
    \/ DocumentDone
    \/ EarlyReturn
    \/ ScanEnd
    \/ SingleAction
    \/ SinglePost
    \/ SingleReturn
    \/ GroupAction
    \/ GroupPost
    \/ GroupReturn
    \/ SendMediaFinally
    \/ SendMessageAction
    \/ SendMessagePost
    \/ SendMessageReturn
    \/ CheckPost
    \/ CheckReturn
    \/ ChatActionDone

Spec == Init /\ [][Next]_vars
----------------------------------------------------------------------------
(* The properties *)

Done == pc = "done"

\* run called send_media
MediaRun == args.media # <<>>

SetMin(S) == CHOOSE x \in S : \A y \in S : x <= y

Documents ==
    {q \in DOMAIN args.media : args.media[q].isfile /\ ClassOf(args.media[q]) = "document"}

\* the first path sent as a document, 0 when there is none
FirstDocument == IF Documents = {} THEN 0 ELSE SetMin(Documents)

Existing == {q \in DOMAIN args.media : args.media[q].isfile}

\* the first path that is a file, 0 when there is none
FirstExisting == IF Existing = {} THEN 0 ELSE SetMin(Existing)

\* the for loop of send_media gets as far as path q
Reached(q) == FirstDocument = 0 \/ q <= FirstDocument

NotFoundLogged(q) == LogLine("error", "File not found:", q, <<>>) \in log

SingleMethods == {"sendphoto", "sendvideo", "sendaudio"}

HasCaption(c) == c \notin {None, Absent, ""}

ExactlyOneButton ==
    ButtonGiven(args.button_text) # ButtonGiven(args.button_url)

\* the files send_media opened for media_group
Accumulated == {q \in opened : ClassOf(args.media[q]) # "document"}

\* C1: when send_media has returned, every file handle it opened is closed.
C1_AllHandlesClosed == (Done /\ MediaRun) => opened \subseteq closed

\* C2: without -F, when send_media has returned, every file put in media_group
\* has been carried by exactly one main request.
C2_EveryItemSentOnce ==
    (Done /\ MediaRun /\ ~args.as_file) =>
        \A q \in Accumulated : Cardinality({k \in DOMAIN sent : q \in sent[k].files}) = 1

\* C3: N > 10 existing photo / video paths, grouped: ceil(N / 10) sendMediaGroup
\* requests of at most 10 descriptors, the descriptors in input order, and the
\* caption on the first descriptor of the first request only.
C3_GroupedBatches ==
    LET N == Len(args.media)
    IN (/\ Done
        /\ ~args.as_file
        /\ ~args.no_group
        /\ N > GroupSize
        /\ \A q \in 1..N : args.media[q].isfile /\ args.media[q].mime \in {"image", "video"})
       => /\ Len(sent) = CeilDiv(N, GroupSize)
          /\ \A k \in DOMAIN sent :
                /\ sent[k].method = "sendMediaGroup"
                /\ Len(sent[k].media) <= GroupSize
                /\ Len(sent[k].media) = Min(GroupSize, N - (k - 1) * GroupSize)
                /\ \A m \in DOMAIN sent[k].media :
                      LET d == sent[k].media[m]
                          q == (k - 1) * GroupSize + m
                      IN /\ d.media = args.media[q].base
                         /\ d.type = MediaType(args.media[q].mime)
                         /\ HasCaption(d.caption) <=>
                                (k = 1 /\ m = 1 /\ HasCaption(args.caption))
                         /\ HasCaption(d.caption) => d.caption = args.caption

C3_Witness ==
    /\ Done
    /\ ~args.as_file /\ ~args.no_group
    /\ Len(args.media) > 2 * GroupSize
    /\ \A q \in DOMAIN args.media : args.media[q].mime \in {"image", "video"}
    /\ \E q \in DOMAIN args.media : args.media[q].mime = "video"
    /\ args.caption = "cap"
    /\ Len(sent) = 3
    /\ sent[1].media[1].caption = "cap"

\* C4: with -F, nothing but sendDocument is sent, whatever the extensions, and
\* only the first file of the list is sent: one request, for the first path that
\* is a file, and none for any later one (no request when no path is a file).
C4_OnlyFirstExisting ==
    (Done /\ MediaRun /\ args.as_file) =>
        /\ media_group = <<>>
        /\ \A k \in DOMAIN sent : sent[k].method = "sendDocument"
        /\ IF FirstExisting = 0 THEN sent = <<>>
           ELSE /\ Len(sent) = 1
                /\ sent[1].item = FirstExisting
                /\ sent[1].files = {FirstExisting}

C4_Witness ==
    /\ Done /\ args.as_file
    /\ Len(args.media) = 3
    /\ ~args.media[1].isfile
    /\ args.media[2].isfile /\ args.media[2].mime = "image"
    /\ args.media[3].isfile
    /\ Len(sent) = 1
    /\ sent[1].item = 2

C7_OneButtonLogged ==
    (Done /\ (MediaRun \/ args.message # None) /\ ExactlyOneButton) =>
        /\ \A k \in DOMAIN sent : sent[k].reply_markup = None
        /\ \E e \in log : e.msg = "Both button_text and button_url must be provided."

\* C8: no line of the log contains the bot token.
C8_TokenNeverLogged == \A e \in log : ~Contains(e.text, bot_token)

\* C9: with --no-group, only the first single-media request carries the caption.
C9_CaptionOnFirstOnly ==
    (Done /\ MediaRun /\ args.no_group) =>
        \A k \in DOMAIN sent :
            (sent[k].method \in SingleMethods /\ k > 1) => ~HasCaption(sent[k].caption)

\* C10: in send_media at most one main request is in flight, and only the one
\* issued last: every earlier one has returned or failed; the requests are
\* issued in the order of the items (batches) of the input.
C10_OneAtATimeInOrder ==
    MediaRun =>
        \A k \in DOMAIN sent :
            /\ sent[k].result = "pending" => k = Len(sent)
            /\ k > 1 => sent[k - 1].item < sent[k].item

C10_Witness ==
    /\ args.no_group
    /\ Len(sent) = 3
    /\ sent[1].result = "failed"
    /\ sent[2].result = "ok"
    /\ sent[3].result = "pending"
    /\ chat_running = 3

\* the main thread has started a chat action and is about to issue its request
AtPost == pc \in {"doc_post", "single_post", "group_post", "message_post"}

MainPost == DocumentPost \/ SinglePost \/ GroupPost \/ SendMessagePost

ChatFailureLine == LogExcept("Failed to send chat action:", 0)

C12_NoEmptyCaption ==
    \A k \in DOMAIN sent : sent[k].method = "sendMediaGroup" =>
        \A m \in DOMAIN sent[k].media :
            sent[k].media[m].caption = Absent \/ HasCaption(sent[k].media[m].caption)

\* C13: with --check, whatever message and media are given, run has issued the
\* one sendChatAction request of check and no other request when it ends;
\* without --check, message and media, run exits without any request.
C13_CheckInsteadOfSending ==
    /\ (pc \in {"done", "exited"} /\ args.check) =>
           (Len(sent) = 1 /\ sent[1].method = "sendChatAction")
    /\ (pc \in {"done", "exited"} /\ ~args.check /\ args.message = None /\ ~MediaRun) =>
           (pc = "exited" /\ sent = <<>>)
=============================================================================
